---- MODULE Spec2Model ----
(***************************************************************************)
(* Layout engine of the event calendar: month grid, day membership, slot   *)
(* allocation, segment geometry and per-day visibility, modelled from      *)
(* src/components/event-calendar.                                          *)
(*                                                                         *)
(* A timestamp is an integer  day * TicksPerDay + tick : day counts the    *)
(* calendar days since 1970-01-01 and tick is the time of day.  Tick 0 is  *)
(* 00:00:00.000 and tick TicksPerDay - 1 is 23:59:59.999, the instant      *)
(* dayjs' endOf() returns; the ticks in between are times during the day.  *)
(***************************************************************************)
EXTENDS Integers, Sequences, FiniteSets, TLC

VARIABLES
  weekStart,     \* dayjs global locale: first weekday (0 Sunday, 1 Monday)
  today,         \* the clock read by dayjs()
  currentDate,   \* reference date of the displayed month
  events,        \* the host's event list (Home.events)
  visibleCount,  \* row budget measured by useEventVisibility
  rendered,      \* output of the last MonthView render
  rerendered,    \* the last render repeated one with unchanged props and state
  cellDate,      \* argument of getEventsForDay / getEventInfo
  weekRow,       \* results for the seven cells of cellDate's week
  monthGrid,     \* result of getDaysInMonth
  eventsWithLayout, \* result of calculateEventLayout
  drag,          \* useCalendarDnd's state: activeDragItem, potentialStartDate,
                 \* offsetRef, and what dnd-kit and the handlers see
  dialog,        \* EventDialog: the form as filled in, and its error message
  pc             \* "init" before a function is applied; after it "done",
                 \* "rows", "filtered", or the function that threw; in
                 \* SpecDnd the handler that ran last

vars == <<weekStart, today, currentDate, events, visibleCount, rendered,
          rerendered, cellDate, weekRow, monthGrid, eventsWithLayout, drag,
          dialog, pc>>

(***************************************************************************)
(* Bounds of the model.                                                    *)
(***************************************************************************)
TicksPerDay == 4
FirstYear == 2020
LastYear == 2027
InfoSpanDays == 14
MaxLayoutEvents == 3
MaxEvents == 5
MaxVisible == 3
MaxClockDays == 1
MaxDndEvents == 1
MaxDndCells == 3
MaxOverflowEvents == 4

(***************************************************************************)
(* The hours of ./constants, which event-dialog.tsx imports: the first and *)
(* the last hour the dialog accepts.                                       *)
(***************************************************************************)
StartHour == 7
EndHour == 20

(***************************************************************************)
(* Calendar arithmetic of the date library (proleptic Gregorian calendar). *)
(***************************************************************************)
DaysFromCivil(y, m, d) ==
  LET yy  == IF m <= 2 THEN y - 1 ELSE y
      era == yy \div 400
      yoe == yy - era * 400
      mp  == IF m > 2 THEN m - 3 ELSE m + 9
      doy == (153 * mp + 2) \div 5 + d - 1
      doe == yoe * 365 + yoe \div 4 - yoe \div 100 + doy
  IN  era * 146097 + doe - 719468

CivilFromDays(n) ==
  LET z   == n + 719468
      era == z \div 146097
      doe == z - era * 146097
      yoe == (doe - doe \div 1460 + doe \div 36524 - doe \div 146096) \div 365
      doy == doe - (365 * yoe + yoe \div 4 - yoe \div 100)
      mp  == (5 * doy + 2) \div 153
      d   == doy - (153 * mp + 2) \div 5 + 1
      m   == IF mp < 10 THEN mp + 3 ELSE mp - 9
      y   == yoe + era * 400 + (IF m <= 2 THEN 1 ELSE 0)
  IN  [year |-> y, month |-> m, date |-> d]

IsLeapYear(y) == (y % 4 = 0 /\ y % 100 # 0) \/ y % 400 = 0

DaysInMonthOf(y, m) ==
  IF m = 2 THEN (IF IsLeapYear(y) THEN 29 ELSE 28)
  ELSE IF m \in {4, 6, 9, 11} THEN 30 ELSE 31

\* a timestamp from a civil date and a tick of the day
At(y, m, d, tick) == DaysFromCivil(y, m, d) * TicksPerDay + tick

DayOf(ts) == ts \div TicksPerDay
TickOf(ts) == ts % TicksPerDay
LastTick == TicksPerDay - 1

(***************************************************************************)
(* dayjs operations used by the source.                                    *)
(***************************************************************************)
\* d.day(): weekday, 0 = Sunday (1970-01-01 was a Thursday)
day(ts) == (DayOf(ts) + 4) % 7

\* d.month() (1..12 here, 0..11 in dayjs: only compared for equality)
month(ts) == CivilFromDays(DayOf(ts)).month

startOfDay(ts) == DayOf(ts) * TicksPerDay
endOfDay(ts) == DayOf(ts) * TicksPerDay + LastTick

\* variant: the week always starts on Sunday, whatever the locale
startOfWeekSunday(ts) == (DayOf(ts) - day(ts)) * TicksPerDay

\* d.startOf('week'): gap = ($W < weekStart ? $W + 7 : $W) - weekStart
startOfWeek(ts) ==
  LET w   == day(ts)
      gap == (IF w < weekStart THEN w + 7 ELSE w) - weekStart
  IN  (DayOf(ts) - gap) * TicksPerDay

\* variant: the week ends at 00:00 of its last day
endOfWeekMidnight(ts) ==
  LET w   == day(ts)
      gap == (IF w < weekStart THEN w + 7 ELSE w) - weekStart
  IN  (DayOf(ts) + (6 - gap)) * TicksPerDay

endOfWeek(ts) ==
  LET w   == day(ts)
      gap == (IF w < weekStart THEN w + 7 ELSE w) - weekStart
  IN  (DayOf(ts) + (6 - gap)) * TicksPerDay + LastTick

startOfMonth(ts) ==
  LET c == CivilFromDays(DayOf(ts))
  IN  DaysFromCivil(c.year, c.month, 1) * TicksPerDay

endOfMonth(ts) ==
  LET c == CivilFromDays(DayOf(ts))
  IN  DaysFromCivil(c.year, c.month, DaysInMonthOf(c.year, c.month)) * TicksPerDay
        + LastTick

addDays(ts, n) == ts + n * TicksPerDay

\* variant: the difference is rounded to the nearest whole day
diffDaysRounded(a, b) ==
  IF a >= b THEN (2 * (a - b) + TicksPerDay) \div (2 * TicksPerDay)
  ELSE 0 - ((2 * (b - a) + TicksPerDay) \div (2 * TicksPerDay))

\* a.diff(b, 'day'): whole days, truncated toward zero
diffDays(a, b) ==
  IF a >= b THEN (a - b) \div TicksPerDay ELSE 0 - ((b - a) \div TicksPerDay)

\* a.diff(b): the difference in the finest unit
diffMs(a, b) == a - b

\* comparisons without a unit compare instants
isBefore(a, b) == a < b
isAfter(a, b) == a > b
isSameOrAfter(a, b) == a >= b

\* comparisons with the unit 'day', as the library computes them
isSameDay(a, b) == startOfDay(a) <= b /\ b <= endOfDay(a)
isAfterDay(a, b) == b < startOfDay(a)
isBeforeDay(a, b) == endOfDay(a) < b
isSameOrBeforeDay(a, b) == isSameDay(a, b) \/ isBeforeDay(a, b)

\* a.isBetween(s, e, 'day', '()'): exclusive, and symmetric in s and e
isBetweenDay(a, s, e) ==
  \/ (isAfterDay(a, s) /\ isBeforeDay(a, e))
  \/ (isBeforeDay(a, s) /\ isAfterDay(a, e))

\* d.format('YYYY-MM-DD'): the text names the calendar day and drops the time
\* of day; the key is kept as the number of that day
formatYMD(ts) == DayOf(ts)

(***************************************************************************)
(* getDaysInMonth (utils/calendar.ts)                                      *)
(***************************************************************************)
CellsPerWeek == 7

\* variant: the trailing padding is forgotten (no endOf('week'))
getDaysInMonthNoTrailingPad(date) ==
  LET firstDayOfMonth    == startOfMonth(date)
      firstDayOfCalendar == startOfWeek(firstDayOfMonth)
      lastDayOfMonth     == endOfMonth(date)
      lastDayOfCalendar  == lastDayOfMonth
      totalDaysInGrid    == diffDays(lastDayOfCalendar, firstDayOfCalendar) + 1
      weeksInGrid        == totalDaysInGrid \div CellsPerWeek
  IN  IF totalDaysInGrid <= 0 \/ totalDaysInGrid % CellsPerWeek # 0
      THEN << >>
      ELSE [i \in 1 .. weeksInGrid |->
             [j \in 1 .. CellsPerWeek |->
               LET currentDay == addDays(firstDayOfCalendar,
                                         (i - 1) * CellsPerWeek + (j - 1))
               IN  [date |-> currentDay,
                    isCurrentMonth |-> month(currentDay) = month(date),
                    isToday |-> isSameDay(currentDay, today)]]]

\* variant: a cell is flagged when it lies in the month of today, not in the
\* month of the reference date
getDaysInMonthOfToday(date) ==
  LET firstDayOfMonth    == startOfMonth(date)
      firstDayOfCalendar == startOfWeek(firstDayOfMonth)
      lastDayOfMonth     == endOfMonth(date)
      lastDayOfCalendar  == endOfWeek(lastDayOfMonth)
      totalDaysInGrid    == diffDays(lastDayOfCalendar, firstDayOfCalendar) + 1
      weeksInGrid        == totalDaysInGrid \div CellsPerWeek
  IN  IF totalDaysInGrid <= 0 \/ totalDaysInGrid % CellsPerWeek # 0
      THEN << >>
      ELSE [i \in 1 .. weeksInGrid |->
             [j \in 1 .. CellsPerWeek |->
               LET currentDay == addDays(firstDayOfCalendar,
                                         (i - 1) * CellsPerWeek + (j - 1))
               IN  [date |-> currentDay,
                    isCurrentMonth |-> month(currentDay) = month(today),
                    isToday |-> isSameDay(currentDay, today)]]]

getDaysInMonth(date) ==
  LET firstDayOfMonth    == startOfMonth(date)
      firstDayOfCalendar == startOfWeek(firstDayOfMonth)
      lastDayOfMonth     == endOfMonth(date)
      lastDayOfCalendar  == endOfWeek(lastDayOfMonth)
      totalDaysInGrid    == diffDays(lastDayOfCalendar, firstDayOfCalendar) + 1
      weeksInGrid        == totalDaysInGrid \div CellsPerWeek
  IN  IF totalDaysInGrid <= 0 \/ totalDaysInGrid % CellsPerWeek # 0
      THEN << >>
      ELSE [i \in 1 .. weeksInGrid |->
             [j \in 1 .. CellsPerWeek |->
               LET currentDay == addDays(firstDayOfCalendar,
                                         (i - 1) * CellsPerWeek + (j - 1))
               IN  [date |-> currentDay,
                    isCurrentMonth |-> month(currentDay) = month(date),
                    isToday |-> isSameDay(currentDay, today)]]]

(***************************************************************************)
(* getEventsForDay (utils/calendar.ts)                                     *)
(***************************************************************************)
\* variant: the instants are compared, not the calendar days
OnDayInstant(date, event) == event.start <= date /\ date <= event.end

OnDay(date, event) ==
  \/ isSameDay(date, event.start)
  \/ isSameDay(date, event.end)
  \/ isBetweenDay(date, event.start, event.end)

getEventsForDay(date, evs) == SelectSeq(evs, LAMBDA event : OnDay(date, event))

(***************************************************************************)
(* getEventInfo (utils/calendar.ts).  left and width are the texts         *)
(* (x * 100 / 7).toFixed(2) + "%", kept as hundredths of a percent.        *)
(***************************************************************************)
toFixed2(x) ==
  IF x >= 0 THEN (2 * x * 10000 + 7) \div 14
  ELSE 0 - ((2 * (0 - x) * 10000 + 7) \div 14)

\* variant: Sunday is taken for the first day of every week
isNewWeekStartSunday(cell) == day(cell) = 0

isNewWeekStart(cell) == day(cell) = day(startOfWeek(today))

\* variant: the day the event ends on is not counted as ongoing
showEndExclusive(event, cell) ==
  \/ isSameDay(cell, event.start)
  \/ /\ isNewWeekStart(cell)
     /\ isAfterDay(cell, event.start)
     /\ isBeforeDay(cell, event.end)

show(event, cell) ==
  \/ isSameDay(cell, event.start)
  \/ /\ isNewWeekStart(cell)
     /\ isAfterDay(cell, event.start)
     /\ isSameOrBeforeDay(cell, event.end)

getEventInfo(event, cell) ==
  LET start == event.start
      end   == event.end
      sow == startOfWeek(cell)
      eow == endOfWeek(cell)
      segmentStart == IF isBefore(start, sow) THEN sow ELSE start
      segmentEnd   == IF isAfter(end, eow) THEN eow ELSE end
      segmentStartDayOfWeek ==
        IF isSameOrAfter(segmentStart, sow) THEN day(segmentStart) ELSE 0
      daysInSegmentThisWeek == diffDays(segmentEnd, segmentStart) + 1
      eventStartWeek  == startOfWeek(start)
      eventEndWeek    == startOfWeek(end)
      currentCellWeek == startOfWeek(cell)
      startsBeforeThisWeek == isBefore(eventStartWeek, currentCellWeek)
      endsAfterThisWeek    == isAfter(eventEndWeek, currentCellWeek)
      multiWeek ==
        IF startsBeforeThisWeek /\ endsAfterThisWeek THEN "both"
        ELSE IF startsBeforeThisWeek /\ eventEndWeek = currentCellWeek
             THEN "previous"
        ELSE IF eventStartWeek = currentCellWeek /\ endsAfterThisWeek
             THEN "next"
        ELSE "undefined"
  IN  IF ~show(event, cell)
      THEN [show |-> FALSE]
      ELSE [left |-> toFixed2(segmentStartDayOfWeek),
            width |-> toFixed2(daysInSegmentThisWeek),
            isStartDay |-> isSameDay(cell, start),
            isMultiDay |-> diffDays(end, start) > 0,
            multiWeek |-> multiWeek,
            show |-> TRUE]

(***************************************************************************)
(* calculateEventLayout (utils/calendar.ts)                                *)
(***************************************************************************)
firstDayOfCalendar(monthDate) == startOfWeek(startOfMonth(monthDate))

lastDayOfCalendar(monthDate) == endOfWeek(endOfMonth(monthDate))

\* 2. the filter
relevant(event, monthDate) ==
  /\ isBefore(event.start, addDays(lastDayOfCalendar(monthDate), 1))
  /\ isSameOrAfter(event.end, firstDayOfCalendar(monthDate))

\* 3. the comparator of the sort, and Array.prototype.sort (stable)
compareEvents(a, b) ==
  LET startDiff == diffMs(a.start, b.start)
  IN  IF startDiff # 0 THEN startDiff ELSE diffMs(b.end, a.end)

RECURSIVE insertSorted(_, _)
insertSorted(sorted, e) ==
  IF sorted = << >> THEN << e >>
  ELSE IF compareEvents(sorted[Len(sorted)], e) <= 0 THEN Append(sorted, e)
  ELSE Append(insertSorted(SubSeq(sorted, 1, Len(sorted) - 1), e),
              sorted[Len(sorted)])

RECURSIVE sortEvents(_)
sortEvents(evs) ==
  IF evs = << >> THEN << >>
  ELSE insertSorted(sortEvents(SubSeq(evs, 1, Len(evs) - 1)), evs[Len(evs)])

\* variant of daysSpanned: the loop compares instants, not calendar days
RECURSIVE daysSpannedInstant(_, _)
daysSpannedInstant(currentDay, lastDay) ==
  IF currentDay <= lastDay
  THEN {formatYMD(currentDay)} \cup daysSpannedInstant(addDays(currentDay, 1), lastDay)
  ELSE {}

\* the keys 'YYYY-MM-DD' visited by
\*   while (currentDay.isSameOrBefore(lastDay, 'day')) { ...; currentDay = currentDay.add(1, 'day') }
RECURSIVE daysSpanned(_, _)
daysSpanned(currentDay, lastDay) ==
  IF isSameOrBeforeDay(currentDay, lastDay)
  THEN {formatYMD(currentDay)} \cup daysSpanned(addDays(currentDay, 1), lastDay)
  ELSE {}

\* the days of one event inside the calendar view
eventDays(event, monthDate) ==
  LET first == firstDayOfCalendar(monthDate)
      last  == lastDayOfCalendar(monthDate)
      currentDay == IF isBefore(event.start, first) THEN first ELSE event.start
      lastDay    == IF isAfter(event.end, last) THEN last ELSE event.end
  IN  daysSpanned(currentDay, lastDay)

\* variant: the slot above every slot in use on the event's days
findSlotAboveAll(days, occupiedSlots, currentY) ==
  LET used == { p[2] : p \in { q \in occupiedSlots : q[1] \in days } }
  IN  IF used = {} THEN currentY
      ELSE (CHOOSE y \in used : \A z \in used : z <= y) + 1

\* variant: the loop tries every second row only
RECURSIVE findSlotEverySecond(_, _, _)
findSlotEverySecond(days, occupiedSlots, currentY) ==
  IF \E d \in days : <<d, currentY>> \in occupiedSlots
  THEN findSlotEverySecond(days, occupiedSlots, currentY + 2)
  ELSE currentY

\* while (!positionFound): the first currentY free on every day of the event
RECURSIVE findSlot(_, _, _)
findSlot(days, occupiedSlots, currentY) ==
  IF \E d \in days : <<d, currentY>> \in occupiedSlots
  THEN findSlot(days, occupiedSlots, currentY + 1)
  ELSE currentY

\* { ...event, cellSlot: currentY }
withCellSlot(event, currentY) ==
  [f \in DOMAIN event \cup {"cellSlot"} |->
     IF f = "cellSlot" THEN currentY ELSE event[f]]

\* 4. for (const event of sortedEvents); occupiedSlots is the set of
\* <<day key, cellSlot>> pairs held by the Map of Sets
RECURSIVE assignSlots(_, _, _, _)
assignSlots(sortedEvents, occupiedSlots, layout, monthDate) ==
  IF sortedEvents = << >> THEN layout
  ELSE LET event    == Head(sortedEvents)
           days     == eventDays(event, monthDate)
           currentY == findSlot(days, occupiedSlots, 0)
       IN  assignSlots(Tail(sortedEvents),
                       occupiedSlots \cup { <<d, currentY>> : d \in days },
                       Append(layout, withCellSlot(event, currentY)),
                       monthDate)

\* variant: occupiedSlots outlives the call (once the view has re-rendered it
\* still holds the slots of the layout computed by the render before)
calculateEventLayoutStale(evs, monthDate) ==
  LET relevantEvents ==
        SelectSeq(evs, LAMBDA event : relevant(event, monthDate))
      sortedEvents == sortEvents(relevantEvents)
      stale == IF rerendered
               THEN UNION { { <<d, rendered.layout[k].cellSlot>> :
                                d \in eventDays(rendered.layout[k], monthDate) } :
                            k \in 1 .. Len(rendered.layout) }
               ELSE {}
  IN  assignSlots(sortedEvents, stale, << >>, monthDate)

calculateEventLayout(evs, monthDate) ==
  LET relevantEvents ==
        SelectSeq(evs, LAMBDA event : relevant(event, monthDate))
      sortedEvents == sortEvents(relevantEvents)
  IN  assignSlots(sortedEvents, {}, << >>, monthDate)

(***************************************************************************)
(* A call of getEventsForDay or calculateEventLayout as its caller sees    *)
(* it.  The events argument is a list, or undefined when the caller leaves *)
(* it out; the call returns a value or throws; and the caller's array is   *)
(* looked at again after the call.                                         *)
(***************************************************************************)
undefined == [defined |-> FALSE]

listOf(evs) == [defined |-> TRUE, list |-> evs]

\* return events.filter(...): reading filter of undefined throws a TypeError
getEventsForDayCall(date, arg) ==
  IF arg.defined
  THEN [threw |-> "nothing", value |-> getEventsForDay(date, arg.list)]
  ELSE [threw |-> "TypeError"]

\* const relevantEvents = events.filter(...), after the view range has been
\* computed: reading filter of undefined throws a TypeError
calculateEventLayoutCall(arg, monthDate) ==
  IF arg.defined
  THEN [threw |-> "nothing", value |-> calculateEventLayout(arg.list, monthDate)]
  ELSE [threw |-> "TypeError"]

\* variant: the slot is written on the event itself (event.cellSlot = currentY)
\* and the event itself is pushed
eventsAfterLayoutInPlace(evs, monthDate) ==
  LET layout == calculateEventLayout(evs, monthDate)
  IN  [k \in DOMAIN evs |->
         IF \E i \in DOMAIN layout : layout[i].id = evs[k].id
         THEN CHOOSE e \in { layout[i] : i \in DOMAIN layout } : e.id = evs[k].id
         ELSE evs[k]]

\* the caller's array after calculateEventLayout: filter builds a new array,
\* sort runs on [...relevantEvents] and every pushed event is a copy
\* { ...event, cellSlot }, so no element of events is written
eventsAfterLayout(evs, monthDate) == evs

\* the caller's array after getEventsForDay: filter builds a new array and
\* the callback only reads event.start and event.end
eventsAfterFilter(date, evs) == evs

(***************************************************************************)
(* MonthView (agenda-view.tsx): the events hidden in a week, and the       *)
(* visible events and the overflow count of each day.                      *)
(***************************************************************************)
\* a.cellSlot ?? 0
slotOf(e) == IF "cellSlot" \in DOMAIN e THEN e.cellSlot ELSE 0

\* [...dayEvents].sort((a, b) => slotA - slotB), stable
RECURSIVE insertBySlot(_, _)
insertBySlot(sorted, e) ==
  IF sorted = << >> THEN << e >>
  ELSE IF slotOf(sorted[Len(sorted)]) - slotOf(e) <= 0 THEN Append(sorted, e)
  ELSE Append(insertBySlot(SubSeq(sorted, 1, Len(sorted) - 1), e),
              sorted[Len(sorted)])

RECURSIVE sortBySlot(_)
sortBySlot(evs) ==
  IF evs = << >> THEN << >>
  ELSE insertBySlot(sortBySlot(SubSeq(evs, 1, Len(evs) - 1)), evs[Len(evs)])

\* Array.prototype.slice(from) and slice(0, to), for from, to >= 0
sliceFrom(seq, from) == SubSeq(seq, from + 1, Len(seq))

sliceTo(seq, to) == SubSeq(seq, 1, IF to < Len(seq) THEN to ELSE Len(seq))

max0(x) == IF x > 0 THEN x ELSE 0

\* the ids added to hiddenIdsThisWeek for one cell of the week
hiddenOnThisDay(date, layoutForThisWeek, count) ==
  LET dayEventsForCheck    == getEventsForDay(date, layoutForThisWeek)
      sortedEventsForCheck == sortBySlot(dayEventsForCheck)
      overflowingItemsCheck == max0(Len(sortedEventsForCheck) - count)
      hidden == sliceFrom(sortedEventsForCheck, count - 1)
  IN  IF overflowingItemsCheck > 0
      THEN { hidden[k].id : k \in 1 .. Len(hidden) }
      ELSE {}

\* variant: the week is not scanned, no event is hidden for the whole week
hiddenIdsThisWeekNoScan(week, layoutForThisWeek, count) == {}

hiddenIdsThisWeek(week, layoutForThisWeek, count) ==
  IF count > 0
  THEN UNION { hiddenOnThisDay(week[i].date, layoutForThisWeek, count) :
                 i \in 1 .. Len(week) }
  ELSE {}

\* variant: slice(0, visibleCount - 1) without the guard for visibleCount = 0;
\* slice(0, -1) drops the last element only
dayVisibilityUnguardedSlice(date, layoutForThisWeek, hiddenIds, count) ==
  LET dayEvents == getEventsForDay(date, layoutForThisWeek)
      originalOverflowingItems == max0(Len(dayEvents) - count)
      sortedEvents == sortBySlot(dayEvents)
      displayableEvents ==
        SelectSeq(sortedEvents, LAMBDA event : event.id \notin hiddenIds)
      visibleEvents ==
        IF originalOverflowingItems > 0
        THEN IF count > 0
             THEN sliceTo(displayableEvents, count - 1)
             ELSE SubSeq(displayableEvents, 1, Len(displayableEvents) - 1)
        ELSE displayableEvents
  IN  [sortedEvents |-> sortedEvents,
       visibleEvents |-> visibleEvents,
       hiddenEventsCount |-> Len(sortedEvents) - Len(visibleEvents)]

dayVisibility(date, layoutForThisWeek, hiddenIds, count) ==
  LET dayEvents == getEventsForDay(date, layoutForThisWeek)
      originalOverflowingItems == max0(Len(dayEvents) - count)
      sortedEvents == sortBySlot(dayEvents)
      displayableEvents ==
        SelectSeq(sortedEvents, LAMBDA event : event.id \notin hiddenIds)
      visibleEvents ==
        IF originalOverflowingItems > 0
        THEN sliceTo(displayableEvents, IF count > 0 THEN count - 1 ELSE 0)
        ELSE displayableEvents
  IN  [sortedEvents |-> sortedEvents,
       visibleEvents |-> visibleEvents,
       hiddenEventsCount |-> Len(sortedEvents) - Len(visibleEvents)]

\* the cells of one week row: the ids hidden in the week, then each day
weekCells(week, layoutForThisWeek, count) ==
  LET hiddenIds == CHOOSE ids \in { hiddenIdsThisWeek(week, layoutForThisWeek, count) } : TRUE
  IN  [d \in 1 .. Len(week) |->
        LET vis == dayVisibility(week[d].date, layoutForThisWeek, hiddenIds, count)
        IN  [sortedEvents |-> vis.sortedEvents,
             visibleEvents |-> vis.visibleEvents,
             hiddenEventsCount |-> vis.hiddenEventsCount,
             info |-> [k \in 1 .. Len(vis.visibleEvents) |->
                        getEventInfo(vis.visibleEvents[k], week[d].date)]]]

\* what one render shows, from the grid and the layout it computed
monthCells(evs, date, count, weeks, layout) ==
  [events |-> evs,
   currentDate |-> date,
   today |-> today,
   visibleCount |-> count,
   weeks |-> weeks,
   layout |-> layout,
   cells |-> [w \in 1 .. Len(weeks) |-> weekCells(weeks[w], layout, count)]]

\* one render of the month view: the grid and the layout are computed once
MonthView(evs, date, count) ==
  CHOOSE view \in { monthCells(evs, date, count, weeks, layout) :
                      weeks \in { getDaysInMonth(date) },
                      layout \in { calculateEventLayout(evs, date) } } : TRUE

(***************************************************************************)
(* Values of the variables a specification does not use.                   *)
(***************************************************************************)
NoRender == [done |-> FALSE]

\* null, and a value that is not null
null == << >>

some(x) == << x >>

\* useCalendarDnd before a drag: useState(null), useRef(null), useState(null);
\* dnd-kit holds no active item and nothing is under the pointer; the
\* handlers are those of a render with potentialStartDate null
NoDrag ==
  [active |-> null, over |-> null, activeDragItem |-> null,
   potentialStartDate |-> null, offsetRef |-> null,
   handlers |-> [potentialStartDate |-> null]]

\* the dialog closed (selectedEvent null), useState<string | null>(null)
NoDialog == [form |-> null, error |-> null]

WeekStarts == {0, 1}

(***************************************************************************)
(* SpecGrid: getDaysInMonth applied to every reference date of the years   *)
(* FirstYear .. LastYear, under a Sunday-first and a Monday-first locale.  *)
(***************************************************************************)
GridDates ==
  { n * TicksPerDay + t :
      n \in DaysFromCivil(FirstYear, 1, 1) .. DaysFromCivil(LastYear, 12, 31),
      t \in {0, LastTick} }

InitGrid ==
  /\ weekStart \in WeekStarts
  /\ currentDate \in GridDates
  /\ today = At(FirstYear, 1, 15, 1)
  /\ events = << >>
  /\ visibleCount = 0
  /\ rendered = NoRender
  /\ rerendered = FALSE
  /\ cellDate = 0
  /\ weekRow = << >>
  /\ monthGrid = << >>
  /\ eventsWithLayout = << >>
  /\ drag = NoDrag
  /\ dialog = NoDialog
  /\ pc = "init"

CallGetDaysInMonth ==
  /\ pc = "init"
  /\ monthGrid' = getDaysInMonth(currentDate)
  /\ pc' = "done"
  /\ UNCHANGED <<weekStart, today, currentDate, events, visibleCount,
                 rendered, rerendered, cellDate, weekRow, eventsWithLayout,
                 drag, dialog>>

NextGrid == CallGetDaysInMonth

SpecGrid == InitGrid /\ [][NextGrid]_vars

(***************************************************************************)
(* SpecInfo: getEventsForDay and getEventInfo applied to the seven cells   *)
(* of a week row, for one event whose start and end range over every       *)
(* instant of InfoSpanDays + 1 days around 2024-03-01 (end < start         *)
(* included).  cellDate is the first cell of the row (week[0].date).       *)
(***************************************************************************)
InfoFirstDay == DaysFromCivil(2024, 2, 25)

InfoDays == InfoFirstDay .. InfoFirstDay + InfoSpanDays

InfoInstants == { n * TicksPerDay + t : n \in InfoDays, t \in 0 .. LastTick }

InitInfo ==
  /\ weekStart \in WeekStarts
  /\ today = At(2024, 3, 5, 1)
  /\ currentDate = At(2024, 3, 5, 1)
  /\ events \in { << [id |-> 1, start |-> s, end |-> e, allDay |-> FALSE] >> :
                    s \in InfoInstants, e \in InfoInstants }
  /\ cellDate \in { n * TicksPerDay : n \in InfoDays }
  /\ cellDate = startOfWeek(cellDate)
  /\ visibleCount = 0
  /\ rendered = NoRender
  /\ rerendered = FALSE
  /\ weekRow = << >>
  /\ monthGrid = << >>
  /\ eventsWithLayout = << >>
  /\ drag = NoDrag
  /\ dialog = NoDialog
  /\ pc = "init"

\* week.map(cell => getEventsForDay(cell.date, events), getEventInfo(event, cell.date))
RenderWeekRow ==
  /\ pc = "init"
  /\ weekRow' = [i \in 1 .. CellsPerWeek |->
                   LET date == addDays(cellDate, i - 1)
                   IN  [date |-> date,
                        dayEvents |-> getEventsForDay(date, events),
                        info |-> getEventInfo(events[1], date)]]
  /\ pc' = "done"
  /\ UNCHANGED <<weekStart, today, currentDate, events, visibleCount,
                 rendered, rerendered, cellDate, monthGrid, eventsWithLayout,
                 drag, dialog>>

\* the weeks that hold every instant of InfoInstants under either locale
InfoWeeks == (InfoSpanDays + 6) \div 7 + 1

\* weeks.map(week => week.map(cell => getEventInfo(event, cell.date))): the
\* event's segments on every displayed week
RenderWeekRows ==
  /\ pc = "init"
  /\ rendered' =
       [done |-> TRUE,
        rows |-> [w \in 1 .. InfoWeeks |->
                   [i \in 1 .. CellsPerWeek |->
                     LET date == addDays(startOfWeek(InfoFirstDay * TicksPerDay),
                                         CellsPerWeek * (w - 1) + (i - 1))
                     IN  [date |-> date,
                          info |-> getEventInfo(events[1], date)]]]]
  /\ pc' = "rows"
  /\ UNCHANGED <<weekStart, today, currentDate, events, visibleCount,
                 rerendered, cellDate, weekRow, monthGrid, eventsWithLayout,
                 drag, dialog>>

NextInfo == RenderWeekRow \/ RenderWeekRows

SpecInfo == InitInfo /\ [][NextInfo]_vars

(***************************************************************************)
(* SpecLayout: calculateEventLayout applied to every list of at most       *)
(* MaxLayoutEvents events drawn from LayoutEvents, for March 2024.  The    *)
(* events lie around the first and the last day of the calendar view:      *)
(* the timed ones start at 14:00 (tick 2) and end at 09:00 (tick 1) or     *)
(* 14:00, and one is an all-day event.  getEventsForDay is applied to the  *)
(* same lists, and a caller without events calls both functions with []    *)
(* or with undefined.                                                      *)
(***************************************************************************)
LayoutMonth == At(2024, 3, 5, 1)

LayoutEvent(sDay, sTick, eDay, eTick) ==
  [start |-> sDay * TicksPerDay + sTick, end |-> eDay * TicksPerDay + eTick,
   allDay |-> FALSE]

LayoutEvents ==
  LET first == DayOf(firstDayOfCalendar(LayoutMonth))
      last  == DayOf(lastDayOfCalendar(LayoutMonth))
      aroundFirst ==
        { LayoutEvent(sd, 2, ed, et) :
            sd \in first - 1 .. first + 1, ed \in first - 1 .. first + 1,
            et \in {1, 2} }
  IN  \* end >= start, around the first day of the view
      { e \in aroundFirst : e.end >= e.start }
      \* end < start: on one day, and over two days
      \cup { LayoutEvent(first, 2, first, 1), LayoutEvent(first + 1, 2, first, 1) }
      \* across the last day of the view, and on the day after it
      \cup { LayoutEvent(last, 2, last + 1, 1), LayoutEvent(last + 1, 2, last + 1, 2) }
      \* an all-day event, 00:00 - 23:59:59.999 of the day after the first
      \cup { [LayoutEvent(first + 1, 0, first + 1, LastTick) EXCEPT !.allDay = TRUE] }

RECURSIVE EventLists(_, _)
EventLists(candidates, n) ==
  IF n = 0 THEN { << >> }
  ELSE LET shorter == EventLists(candidates, n - 1)
       IN  shorter \cup
           { Append(l, [id |-> Len(l) + 1, start |-> c.start, end |-> c.end,
                        allDay |-> c.allDay]) :
               l \in { x \in shorter : Len(x) = n - 1 }, c \in candidates }

InitLayout ==
  /\ weekStart \in WeekStarts
  /\ today = LayoutMonth
  /\ currentDate = LayoutMonth
  /\ events \in EventLists(LayoutEvents, MaxLayoutEvents)
  /\ visibleCount = 0
  /\ rendered = NoRender
  /\ rerendered = FALSE
  /\ cellDate = 0
  /\ weekRow = << >>
  /\ monthGrid = << >>
  /\ eventsWithLayout = << >>
  /\ drag = NoDrag
  /\ dialog = NoDialog
  /\ pc = "init"

CallCalculateEventLayout ==
  /\ pc = "init"
  /\ eventsWithLayout' = calculateEventLayout(events, currentDate)
  /\ events' = eventsAfterLayout(events, currentDate)
  /\ pc' = "done"
  /\ UNCHANGED <<weekStart, today, currentDate, visibleCount,
                 rendered, rerendered, cellDate, weekRow, monthGrid,
                 drag, dialog>>

\* the day getEventsForDay is asked about: the second day of the view
LayoutDay == addDays(firstDayOfCalendar(LayoutMonth), 1)

CallGetEventsForDay ==
  /\ pc = "init"
  /\ weekRow' = << [date |-> LayoutDay,
                    dayEvents |-> getEventsForDay(LayoutDay, events)] >>
  /\ events' = eventsAfterFilter(LayoutDay, events)
  /\ pc' = "filtered"
  /\ UNCHANGED <<weekStart, today, currentDate, visibleCount, rendered,
                 rerendered, cellDate, monthGrid, eventsWithLayout,
                 drag, dialog>>

\* a caller that holds no events passes [] or leaves the list undefined
CallCalculateEventLayoutUndefined ==
  /\ pc = "init"
  /\ events = << >>
  /\ \E arg \in {listOf(events), undefined} :
     LET outcome == calculateEventLayoutCall(arg, currentDate)
     IN  IF outcome.threw = "nothing"
         THEN /\ eventsWithLayout' = outcome.value
              /\ pc' = "done"
         ELSE /\ UNCHANGED eventsWithLayout
              /\ pc' = "calculateEventLayout threw"
  /\ UNCHANGED <<weekStart, today, currentDate, events, visibleCount,
                 rendered, rerendered, cellDate, weekRow, monthGrid,
                 drag, dialog>>

CallGetEventsForDayUndefined ==
  /\ pc = "init"
  /\ events = << >>
  /\ \E arg \in {listOf(events), undefined} :
     LET outcome == getEventsForDayCall(LayoutDay, arg)
     IN  IF outcome.threw = "nothing"
         THEN /\ weekRow' = << [date |-> LayoutDay, dayEvents |-> outcome.value] >>
              /\ pc' = "filtered"
         ELSE /\ UNCHANGED weekRow
              /\ pc' = "getEventsForDay threw"
  /\ UNCHANGED <<weekStart, today, currentDate, events, visibleCount,
                 rendered, rerendered, cellDate, monthGrid, eventsWithLayout,
                 drag, dialog>>

NextLayout ==
  \/ CallCalculateEventLayout
  \/ CallGetEventsForDay
  \/ CallCalculateEventLayoutUndefined
  \/ CallGetEventsForDayUndefined

SpecLayout == InitLayout /\ [][NextLayout]_vars

(***************************************************************************)
(* Spec: the host page (Home) holding the event list, and the month view   *)
(* of March 2024 rendering it.  Events are added from HostEvents, the      *)
(* measured row budget changes, the clock passes midnight, and the view    *)
(* re-renders.                                                             *)
(***************************************************************************)
HostMonth == At(2024, 3, 5, 1)

\* the event the page adds: Tuesday 5 March, 09:00 - 14:00
HostEvents ==
  { [start |-> At(2024, 3, 5, 1), end |-> At(2024, 3, 5, 2), allDay |-> FALSE] }

\* the list the page starts with (the view's own default is events = []):
\* the Monday - Tuesday event, then an all-day event
\* Saturday 2 March 14:00 - Monday 4 March 09:00
sampleEvents ==
  << [id |-> 1, start |-> At(2024, 3, 4, 1), end |-> At(2024, 3, 5, 2),
      allDay |-> FALSE],
     [id |-> 2, start |-> At(2024, 3, 2, 2), end |-> At(2024, 3, 4, 1),
      allDay |-> TRUE] >>

Init ==
  /\ weekStart \in WeekStarts
  /\ today = HostMonth
  /\ currentDate = HostMonth
  /\ events \in { << >>, sampleEvents }
  /\ visibleCount = 0
  /\ rerendered = FALSE
  /\ rendered = MonthView(events, currentDate, visibleCount)
  /\ cellDate = 0
  /\ weekRow = << >>
  /\ monthGrid = << >>
  /\ eventsWithLayout = << >>
  /\ drag = NoDrag
  /\ dialog = NoDialog
  /\ pc = "init"

\* Home.handleEventAdd, and the render the state update causes
handleEventAdd(c) ==
  /\ Len(events) < MaxEvents
  /\ events' = Append(events, [id |-> Len(events) + 1, start |-> c.start,
                               end |-> c.end, allDay |-> c.allDay])
  /\ rendered' = MonthView(events', currentDate, visibleCount)
  /\ rerendered' = FALSE
  /\ UNCHANGED <<weekStart, today, currentDate, visibleCount, cellDate,
                 weekRow, monthGrid, eventsWithLayout, pc, drag, dialog>>

\* useEventVisibility: the ResizeObserver sets contentHeight, and
\* getVisibleEventCount() gives another row budget in the render it causes
resize(count) ==
  /\ count # visibleCount
  /\ visibleCount' = count
  /\ rendered' = MonthView(events, currentDate, count)
  /\ rerendered' = FALSE
  /\ UNCHANGED <<weekStart, today, currentDate, events, cellDate,
                 weekRow, monthGrid, eventsWithLayout, pc, drag, dialog>>

\* the clock passes midnight; nothing renders
tick ==
  /\ DayOf(today) < DayOf(HostMonth) + MaxClockDays
  /\ today' = addDays(today, 1)
  /\ UNCHANGED <<weekStart, currentDate, events, visibleCount, rendered,
                 rerendered, cellDate, weekRow, monthGrid, eventsWithLayout, pc,
                 drag, dialog>>

\* React calls MonthView again with the same props and state
rerender ==
  /\ rendered' = MonthView(events, currentDate, visibleCount)
  /\ rerendered' = TRUE
  /\ UNCHANGED <<weekStart, today, currentDate, events, visibleCount,
                 cellDate, weekRow, monthGrid, eventsWithLayout, pc,
                 drag, dialog>>

Next ==
  \/ \E c \in HostEvents : handleEventAdd(c)
  \/ \E count \in 0 .. MaxVisible : resize(count)
  \/ tick
  \/ rerender

Spec == Init /\ [][Next]_vars

(***************************************************************************)
(* SpecDnd: the host page (Home), EventCalendar and the month view of      *)
(* March 2024 under the pointer.  An event item is dragged over the day    *)
(* cells DndCells and dropped; React renders the state updates of a        *)
(* dragOver some time after the handler returned; the event dialog is      *)
(* opened, filled in, saved, closed, or used to delete the event.          *)
(***************************************************************************)
DndMonth == At(2024, 3, 5, 1)

\* the day cells the pointer visits: Monday 4 March 2024 and the days after
DndCells == { At(2024, 3, 4 + i, 0) : i \in 0 .. MaxDndCells - 1 }

\* the events the page starts with: Monday 4 March 09:00 - Tuesday 5 March
\* 14:00, and an all-day event on Tuesday 5 March
DndEvents ==
  { [start |-> At(2024, 3, 4, 1), end |-> At(2024, 3, 5, 2), allDay |-> FALSE],
    [start |-> At(2024, 3, 5, 0), end |-> At(2024, 3, 5, LastTick),
     allDay |-> TRUE] }

\* the dates and the times of day the dialog's pickers are set to
DialogDays == { At(2024, 3, 4, 0), At(2024, 3, 5, 0) }

DialogTimes == { 0, 2 }

\* the hour of a time of day, as startTime.split(":").map(Number)[0] gives it
hourOf(t) == (24 * t) \div TicksPerDay

\* the data of the event items MonthView renders and the pointer can pick
\* up: <EventItem event={event} cellDate={cellDate}> for the events of the
\* layout; useDraggable is disabled when the item does not show
draggables(evs, monthDate) ==
  LET layout == calculateEventLayout(evs, monthDate)
  IN  { [event |-> layout[k]] : k \in { i \in DOMAIN layout :
          \E c \in DndCells : getEventInfo(layout[i], c).show } }

\* delete modifiedEvent.cellSlot
withoutCellSlot(event) ==
  [f \in DOMAIN event \ {"cellSlot"} |-> event[f]]

\* EventCalendar.handleEventUpdate: the event it hands to onEventUpdate
modifiedEvent(eventToUpdate) ==
  IF ~eventToUpdate.allDay THEN withoutCellSlot(eventToUpdate)
  ELSE eventToUpdate

\* Home.handleEventUpdate, handleEventAdd and handleEventDelete: the list
\* given to setEvents
eventsAfterUpdate(evs, updatedEvent) ==
  [k \in DOMAIN evs |->
     IF evs[k].id = updatedEvent.id THEN updatedEvent ELSE evs[k]]

eventsAfterAdd(evs, event) == Append(evs, event)

eventsAfterDelete(evs, eventId) ==
  SelectSeq(evs, LAMBDA e : e.id # eventId)

\* Math.random().toString(36).substring(2, 11): an id no event of the list has
newId(evs) ==
  CHOOSE i \in 1 .. Len(evs) + 1 : \A k \in DOMAIN evs : evs[k].id # i

\* EventCalendar.handleEventSave: the list after onEventUpdate or onEventAdd
eventsAfterSave(evs, event) ==
  IF event.id # null THEN eventsAfterUpdate(evs, [event EXCEPT !.id = event.id[1]])
  ELSE eventsAfterAdd(evs, [event EXCEPT !.id = newId(evs)])

InitDnd ==
  /\ weekStart \in WeekStarts
  /\ today = DndMonth
  /\ currentDate = DndMonth
  /\ events \in EventLists(DndEvents, MaxDndEvents)
  /\ visibleCount = 0
  /\ rerendered = FALSE
  /\ rendered = NoRender
  /\ cellDate = 0
  /\ weekRow = << >>
  /\ monthGrid = << >>
  /\ eventsWithLayout = << >>
  /\ drag = NoDrag
  /\ dialog = NoDialog
  /\ pc = "init"

\* useCalendarDnd.handleDragStart, called by dnd-kit with the item picked up
handleDragStart(active) ==
  /\ drag.active = null
  /\ dialog.form = null
  /\ drag' = [drag EXCEPT !.active = some(active),
                          !.over = null,
                          !.activeDragItem = some(active),
                          !.potentialStartDate = null,
                          !.offsetRef = null]
  /\ pc' = "handleDragStart"
  /\ UNCHANGED <<weekStart, today, currentDate, events, visibleCount,
                 rendered, rerendered, cellDate, weekRow, monthGrid,
                 eventsWithLayout, dialog>>

\* the pointer picks the item up on a day cell the item is drawn over, and
\* pointerWithin makes that cell the first one hovered
underItem(event, cell) ==
  /\ isSameOrBeforeDay(event.start, cell)
  /\ isSameOrBeforeDay(cell, event.end)

\* useCalendarDnd.handleDragOver, called by dnd-kit when the droppable
\* under the pointer changes; over is null outside every cell, and a day
\* cell of the month view carries no isAllDaySlot.  setPotentialStartDate
\* takes effect at the next render, offsetRef.current at once
handleDragOver(over) ==
  /\ drag.active # null
  /\ over # drag.over
  /\ drag.offsetRef = null /\ over # null => underItem(drag.active[1].event, over[1])
  /\ LET startDate == drag.active[1].event.start
         offset ==
           IF drag.offsetRef = null
           THEN some(diffDays(startOfDay(over[1]), startOfDay(startDate)))
           ELSE drag.offsetRef
         overDate == startOfDay(over[1])
         currentOffset == IF offset = null \/ offset[1] = 0 THEN 0 ELSE offset[1]
         newPotentialStartDate == addDays(overDate, 0 - currentOffset)
     IN  drag' =
           IF over = null
           THEN [drag EXCEPT !.over = over, !.potentialStartDate = null]
           ELSE [drag EXCEPT !.over = over, !.offsetRef = offset,
                             !.potentialStartDate = some(newPotentialStartDate)]
  /\ pc' = "handleDragOver"
  /\ UNCHANGED <<weekStart, today, currentDate, events, visibleCount,
                 rendered, rerendered, cellDate, weekRow, monthGrid,
                 eventsWithLayout, dialog>>

\* React renders MonthView, and useCalendarDnd in it, with the state set by
\* handleDragOver: from now on dnd-kit calls the handlers of this render
renderDrag ==
  /\ drag.handlers.potentialStartDate # drag.potentialStartDate
  /\ drag' = [drag EXCEPT !.handlers.potentialStartDate = drag.potentialStartDate]
  /\ pc' = "render"
  /\ UNCHANGED <<weekStart, today, currentDate, events, visibleCount,
                 rendered, rerendered, cellDate, weekRow, monthGrid,
                 eventsWithLayout, dialog>>

\* the new start at midnight of the potential start day
droppedEventAtMidnight(originalEvent, finalPotentialDropDate) ==
  LET duration == diffMs(originalEvent.end, originalEvent.start)
  IN  [originalEvent EXCEPT !.start = finalPotentialDropDate,
                            !.end = finalPotentialDropDate + duration]

\* what handleDragEnd passes to onEventUpdate: the potential start day at
\* the original time of day, and the original duration after it
droppedEvent(originalEvent, finalPotentialDropDate) ==
  LET duration == diffMs(originalEvent.end, originalEvent.start)
      newStartDateTime ==
        startOfDay(finalPotentialDropDate) + TickOf(originalEvent.start)
      newEndDateTime == newStartDateTime + duration
  IN  [originalEvent EXCEPT !.start = newStartDateTime,
                            !.end = newEndDateTime]

\* the conditions without the test of over.data.current.date
dropUpdatesAnywhere(d) ==
  /\ d.handlers.potentialStartDate # null
  /\ ~isSameDay(d.handlers.potentialStartDate[1],
                startOfDay(d.active[1].event.start))

\* the conditions of handleDragEnd: potentialStartDate is the state of the
\* render the handler was created in
dropUpdates(d) ==
  /\ d.over # null
  /\ d.handlers.potentialStartDate # null
  /\ ~isSameDay(d.handlers.potentialStartDate[1],
                startOfDay(d.active[1].event.start))

\* handleDragEnd with the reset inside the branch that updates
handleDragEndResetOnUpdate ==
  /\ drag.active # null
  /\ events' =
       IF dropUpdates(drag)
       THEN eventsAfterUpdate(events,
              modifiedEvent(droppedEvent(drag.active[1].event,
                                         drag.handlers.potentialStartDate[1])))
       ELSE events
  /\ drag' = IF dropUpdates(drag) THEN NoDrag
             ELSE [drag EXCEPT !.active = null, !.over = null]
  /\ pc' = "handleDragEnd"
  /\ UNCHANGED <<weekStart, today, currentDate, visibleCount,
                 rendered, rerendered, cellDate, weekRow, monthGrid,
                 eventsWithLayout, dialog>>

\* useCalendarDnd.handleDragEnd with EventCalendar.handleEventUpdate and
\* Home.handleEventUpdate behind onEventUpdate; the pointer was released in
\* a discrete event, so React renders the reset state before the next event
handleDragEnd ==
  /\ drag.active # null
  /\ events' =
       IF dropUpdates(drag)
       THEN eventsAfterUpdate(events,
              modifiedEvent(droppedEvent(drag.active[1].event,
                                         drag.handlers.potentialStartDate[1])))
       ELSE events
  /\ drag' = NoDrag
  /\ pc' = "handleDragEnd"
  /\ UNCHANGED <<weekStart, today, currentDate, visibleCount,
                 rendered, rerendered, cellDate, weekRow, monthGrid,
                 eventsWithLayout, dialog>>

\* EventCalendar.handleEventCreate or handleEventSelect opens the dialog and
\* the user sets its fields: id is null for a new event
DialogForms(evs) ==
  [id : {null} \cup { some(evs[k].id) : k \in DOMAIN evs },
   startDate : DialogDays, endDate : DialogDays,
   startTime : DialogTimes, endTime : DialogTimes, allDay : BOOLEAN]

editForm(form) ==
  /\ drag.active = null
  /\ dialog.form = null
  /\ form.id = null => Len(events) < MaxDndEvents
  /\ dialog' = [form |-> some(form), error |-> null]
  /\ pc' = "editForm"
  /\ UNCHANGED <<weekStart, today, currentDate, events, visibleCount,
                 rendered, rerendered, cellDate, weekRow, monthGrid,
                 eventsWithLayout, drag>>

\* the hours check applied to the start time only
hoursOutOfRangeStartOnly(form) ==
  \/ hourOf(form.startTime) < StartHour
  \/ hourOf(form.startTime) > EndHour

\* the hours check of handleSave
hoursOutOfRange(form) ==
  \/ hourOf(form.startTime) < StartHour
  \/ hourOf(form.startTime) > EndHour
  \/ hourOf(form.endTime) < StartHour
  \/ hourOf(form.endTime) > EndHour

\* start and end as handleSave computes them with setHours
savedStart(form) ==
  IF ~form.allDay THEN startOfDay(form.startDate) + form.startTime
  ELSE startOfDay(form.startDate)

savedEnd(form) ==
  IF ~form.allDay THEN startOfDay(form.endDate) + form.endTime
  ELSE endOfDay(form.endDate)

\* handleSave without the check of end against start
saveErrorHoursOnly(form) ==
  IF ~form.allDay /\ hoursOutOfRange(form)
  THEN some("Selected time must be between StartHour:00 and EndHour:00")
  ELSE null

\* the outcome of handleSave: the error it sets, or none
saveError(form) ==
  IF ~form.allDay /\ hoursOutOfRange(form)
  THEN some("Selected time must be between StartHour:00 and EndHour:00")
  ELSE IF isBefore(savedEnd(form), savedStart(form))
  THEN some("End date cannot be before start date")
  ELSE null

\* EventDialog.handleSave, with EventCalendar.handleEventSave and Home's
\* handlers behind onSave; a saved dialog is closed
handleSave ==
  /\ dialog.form # null
  /\ LET form == dialog.form[1]
         err == saveError(form)
     IN  IF err # null
         THEN /\ dialog' = [dialog EXCEPT !.error = err]
              /\ events' = events
         ELSE /\ events' = eventsAfterSave(events,
                             [id |-> form.id, start |-> savedStart(form),
                              end |-> savedEnd(form), allDay |-> form.allDay])
              /\ dialog' = NoDialog
  /\ pc' = "handleSave"
  /\ UNCHANGED <<weekStart, today, currentDate, visibleCount,
                 rendered, rerendered, cellDate, weekRow, monthGrid,
                 eventsWithLayout, drag>>

\* EventDialog.handleDelete with EventCalendar.handleEventDelete and
\* Home.handleEventDelete
handleDelete ==
  /\ dialog.form # null
  /\ dialog.form[1].id # null
  /\ events' = eventsAfterDelete(events, dialog.form[1].id[1])
  /\ dialog' = NoDialog
  /\ pc' = "handleDelete"
  /\ UNCHANGED <<weekStart, today, currentDate, visibleCount,
                 rendered, rerendered, cellDate, weekRow, monthGrid,
                 eventsWithLayout, drag>>

\* onClose of the dialog: nothing is saved
closeDialog ==
  /\ dialog.form # null
  /\ dialog' = NoDialog
  /\ pc' = "closeDialog"
  /\ UNCHANGED <<weekStart, today, currentDate, events, visibleCount,
                 rendered, rerendered, cellDate, weekRow, monthGrid,
                 eventsWithLayout, drag>>

NextDnd ==
  \/ \E active \in draggables(events, currentDate) : handleDragStart(active)
  \/ \E over \in {null} \cup { some(c) : c \in DndCells } : handleDragOver(over)
  \/ renderDrag
  \/ handleDragEnd
  \/ \E form \in DialogForms(events) : editForm(form)
  \/ handleSave
  \/ handleDelete
  \/ closeDialog

SpecDnd == InitDnd /\ [][NextDnd]_vars

(***************************************************************************)
(* SpecOverflow: one render of the month view of March 2024 for every list *)
(* of up to MaxOverflowEvents events around the week boundary of Saturday  *)
(* 2 - Monday 4 March, every row budget and both locales.                  *)
(***************************************************************************)
\* Saturday 09:00 - Sunday 14:00, Sunday 09:00 - Monday 14:00, and Monday
\* 09:00 - 14:00
OverflowEvents ==
  LET sat == DayOf(At(2024, 3, 2, 0))
  IN  { LayoutEvent(sat, 1, sat + 1, 2), LayoutEvent(sat + 1, 1, sat + 2, 2),
        LayoutEvent(sat + 2, 1, sat + 2, 2) }

InitOverflow ==
  /\ weekStart \in WeekStarts
  /\ today = HostMonth
  /\ currentDate = HostMonth
  /\ events \in EventLists(OverflowEvents, MaxOverflowEvents)
  /\ visibleCount \in 0 .. MaxVisible
  /\ rerendered = FALSE
  /\ rendered = NoRender
  /\ cellDate = 0
  /\ weekRow = << >>
  /\ monthGrid = << >>
  /\ eventsWithLayout = << >>
  /\ drag = NoDrag
  /\ dialog = NoDialog
  /\ pc = "init"

\* React calls MonthView with the events and the measured row budget
RenderMonthView ==
  /\ pc = "init"
  /\ rendered' = MonthView(events, currentDate, visibleCount)
  /\ pc' = "rendered"
  /\ UNCHANGED <<weekStart, today, currentDate, events, visibleCount,
                 rerendered, cellDate, weekRow, monthGrid, eventsWithLayout,
                 drag, dialog>>

NextOverflow == RenderMonthView

SpecOverflow == InitOverflow /\ [][NextOverflow]_vars

(***************************************************************************)
(* C2: for every reference date getDaysInMonth returns between 4 and 6     *)
(* weeks, every week has exactly 7 cells holding consecutive calendar      *)
(* days, and the total cell count is divisible by 7.                       *)
(***************************************************************************)
RECURSIVE CellCount(_)
CellCount(grid) ==
  IF grid = << >> THEN 0 ELSE Len(Head(grid)) + CellCount(Tail(grid))

C2_MonthGridShape ==
  pc = "done" =>
    /\ Len(monthGrid) \in 4 .. 6
    /\ \A i \in 1 .. Len(monthGrid) :
         /\ Len(monthGrid[i]) = 7
         /\ \A j \in 1 .. Len(monthGrid[i]) - 1 :
              DayOf(monthGrid[i][j + 1].date) = DayOf(monthGrid[i][j].date) + 1
    /\ CellCount(monthGrid) % 7 = 0

\* a February that fills exactly four weeks has been laid out
C2_Witness ==
  /\ pc = "done"
  /\ month(currentDate) = 2
  /\ Len(monthGrid) = 4

(***************************************************************************)
(* The event of SpecInfo and the calendar days it covers.                  *)
(***************************************************************************)
TheEvent == events[1]

StartDay == DayOf(TheEvent.start)

EndDay == DayOf(TheEvent.end)

Occupies(n) == StartDay <= n /\ n <= EndDay

RowDay(i) == DayOf(weekRow[i].date)

\* number of calendar days of the event inside the week of the row
DaysInRowWeek ==
  Cardinality({ n \in DayOf(cellDate) .. DayOf(cellDate) + 6 : Occupies(n) })

(***************************************************************************)
(* C3: getEventsForDay(day, events) returns exactly the events whose start *)
(* calendar date <= day <= end calendar date, whatever the times of day,   *)
(* for every event with end >= start.                                      *)
(***************************************************************************)
C3_DayMembership ==
  (pc = "done" /\ TheEvent.end >= TheEvent.start) =>
    \A i \in 1 .. 7 :
      weekRow[i].dayEvents = IF Occupies(RowDay(i)) THEN events ELSE << >>

\* an event of two days or more that starts late in the day and ends early
\* in the day, returned on its first and last day
C3_Witness ==
  /\ pc = "done"
  /\ EndDay > StartDay
  /\ TickOf(TheEvent.start) > TickOf(TheEvent.end)
  /\ \E i, j \in 1 .. 7 :
       /\ RowDay(i) = StartDay /\ weekRow[i].dayEvents = events
       /\ RowDay(j) = EndDay /\ weekRow[j].dayEvents = events

(***************************************************************************)
(* C4: for every event with end >= start and every displayed week that     *)
(* contains a day of the event, getEventInfo returns show = true on        *)
(* exactly one cell of that week, and never on a cell the event does not   *)
(* occupy.                                                                 *)
(***************************************************************************)
C4_OneSegmentPerWeek ==
  (pc = "done" /\ TheEvent.end >= TheEvent.start) =>
    LET occupied == { i \in 1 .. 7 : Occupies(RowDay(i)) }
        shown    == { i \in 1 .. 7 : weekRow[i].info.show }
    IN  /\ occupied # {} => Cardinality(shown) = 1
        /\ shown \subseteq occupied

\* under a Monday-first locale, an event that began in an earlier week is
\* shown on the first cell of a week it continues into
C4_Witness ==
  /\ pc = "done"
  /\ weekStart = 1
  /\ StartDay < DayOf(cellDate)
  /\ EndDay > DayOf(cellDate)
  /\ weekRow[1].info.show
  /\ \A i \in 2 .. 7 : ~weekRow[i].info.show

C9_ShowRule ==
  pc = "done" =>
    \A i \in 1 .. 7 :
      weekRow[i].info.show <=>
        \/ RowDay(i) = StartDay
        \/ /\ (RowDay(i) + 4) % 7 = weekStart
           /\ StartDay < RowDay(i)
           /\ RowDay(i) <= EndDay

\* an event that started in an earlier week and ends on the first day of
\* the row's week is shown there
C9_Witness ==
  /\ pc = "done"
  /\ StartDay < DayOf(cellDate)
  /\ EndDay = DayOf(cellDate)
  /\ weekRow[1].info.show

(***************************************************************************)
(* C10: when a segment is shown, its width equals (number of calendar days *)
(* of the event inside the cell's week) / 7, counted by calendar date      *)
(* whatever the times of day of start and end.                             *)
(***************************************************************************)
C10_WidthCountsCalendarDays ==
  (pc = "done" /\ TheEvent.end >= TheEvent.start) =>
    \A i \in 1 .. 7 :
      weekRow[i].info.show => weekRow[i].info.width = toFixed2(DaysInRowWeek)

(***************************************************************************)
(* C1: in the output of calculateEventLayout no two distinct events that   *)
(* received the same cellSlot occupy a common calendar day inside the      *)
(* laid-out window (each event's day range clipped to the window's first   *)
(* and last displayed day).                                                *)
(***************************************************************************)
ClippedDays(e) ==
  { n \in DayOf(firstDayOfCalendar(currentDate)) ..
          DayOf(lastDayOfCalendar(currentDate)) :
      DayOf(e.start) <= n /\ n <= DayOf(e.end) }

C1_NoSlotCollision ==
  pc = "done" =>
    \A i, j \in 1 .. Len(eventsWithLayout) :
      (i # j /\ eventsWithLayout[i].cellSlot = eventsWithLayout[j].cellSlot)
        => ClippedDays(eventsWithLayout[i]) \cap ClippedDays(eventsWithLayout[j]) = {}

\* three events in the window: two overlap on a day and got different
\* slots, the third shares a slot with one of them on other days; one event
\* starts late in the day and ends early in the day
C1_Witness ==
  /\ pc = "done"
  /\ Len(eventsWithLayout) = 3
  /\ \A i \in 1 .. 3 : ClippedDays(eventsWithLayout[i]) # {}
  /\ \E i, j \in 1 .. 3 :
       /\ i # j
       /\ ClippedDays(eventsWithLayout[i]) \cap ClippedDays(eventsWithLayout[j]) # {}
       /\ eventsWithLayout[i].cellSlot # eventsWithLayout[j].cellSlot
       /\ TickOf(eventsWithLayout[i].start) > TickOf(eventsWithLayout[i].end)
  /\ \E i, j \in 1 .. 3 :
       /\ i # j
       /\ eventsWithLayout[i].cellSlot = eventsWithLayout[j].cellSlot

(***************************************************************************)
(* The cells of the last render of Spec, and the events of the rendered    *)
(* list counted by calendar day.                                           *)
(***************************************************************************)
Rows == 1 .. Len(rendered.cells)

Cols(w) == 1 .. Len(rendered.cells[w])

CellDay(w, d) == DayOf(rendered.weeks[w][d].date)

\* positions in the event list of the events that cover calendar day n
EventsOnDay(n) ==
  { k \in 1 .. Len(rendered.events) :
      DayOf(rendered.events[k].start) <= n /\ n <= DayOf(rendered.events[k].end) }

SingleDay(k) == DayOf(rendered.events[k].start) = DayOf(rendered.events[k].end)

VisibleIds(w, d) ==
  { rendered.cells[w][d].visibleEvents[i].id :
      i \in 1 .. Len(rendered.cells[w][d].visibleEvents) }

(***************************************************************************)
(* C7: for a day with n events and a row budget maxVisible = m,            *)
(* hiddenCount equals n minus the number of visible events, and when       *)
(* n > m at most m - 1 events are visible; 5 single-day events with m = 3  *)
(* give exactly 2 visible and hiddenCount 3.                               *)
(***************************************************************************)
C7_ReservedRow ==
  \A w \in Rows : \A d \in Cols(w) :
    LET n == Cardinality(EventsOnDay(CellDay(w, d)))
        m == rendered.visibleCount
        v == Len(rendered.cells[w][d].visibleEvents)
        h == rendered.cells[w][d].hiddenEventsCount
    IN  /\ h = n - v
        /\ n > m => v <= m - 1
        /\ (n = 5 /\ m = 3 /\ \A k \in EventsOnDay(CellDay(w, d)) : SingleDay(k))
             => (v = 2 /\ h = 3)

(***************************************************************************)
(* C7, amended: as C7, with at most max(m - 1, 0) events visible when      *)
(* n > m (a budget of 0 rows, the value before the cell height has been    *)
(* measured, shows no event).                                              *)
(***************************************************************************)
C7_ReservedRowFloor ==
  \A w \in Rows : \A d \in Cols(w) :
    LET n == Cardinality(EventsOnDay(CellDay(w, d)))
        m == rendered.visibleCount
        v == Len(rendered.cells[w][d].visibleEvents)
        h == rendered.cells[w][d].hiddenEventsCount
    IN  /\ h = n - v
        /\ n > m => v <= (IF m > 0 THEN m - 1 ELSE 0)
        /\ (n = 5 /\ m = 3 /\ \A k \in EventsOnDay(CellDay(w, d)) : SingleDay(k))
             => (v = 2 /\ h = 3)

\* a day with five single-day events rendered with a budget of three rows:
\* two are visible and "+3 more" is shown
C7_Witness ==
  \E w \in Rows : \E d \in Cols(w) :
    /\ Cardinality(EventsOnDay(CellDay(w, d))) = 5
    /\ \A k \in EventsOnDay(CellDay(w, d)) : SingleDay(k)
    /\ rendered.visibleCount = 3
    /\ Len(rendered.cells[w][d].visibleEvents) = 2
    /\ rendered.cells[w][d].hiddenEventsCount = 3

(***************************************************************************)
(* C8: within one displayed week and for every row budget, an event is in  *)
(* the visible set of every day of that week it occupies or in the visible *)
(* set of none of them.                                                    *)
(***************************************************************************)
OccupiedCols(w, k) == { d \in Cols(w) : k \in EventsOnDay(CellDay(w, d)) }

VisibleCols(w, k) == { d \in Cols(w) : rendered.events[k].id \in VisibleIds(w, d) }

C8_WeekConsistency ==
  \A w \in Rows : \A k \in 1 .. Len(rendered.events) :
    VisibleCols(w, k) = {} \/ VisibleCols(w, k) = OccupiedCols(w, k)

\* an event over two days of a week or more overflows on one of them and is
\* left out on another one, where the budget would have had room for it
C8_Witness ==
  \E w \in Rows : \E k \in 1 .. Len(rendered.events) :
    /\ rendered.visibleCount > 0
    /\ Cardinality(OccupiedCols(w, k)) >= 2
    /\ VisibleCols(w, k) = {}
    /\ \E d \in OccupiedCols(w, k) :
         Cardinality(EventsOnDay(CellDay(w, d))) > rendered.visibleCount
    /\ \E d \in OccupiedCols(w, k) :
         Cardinality(EventsOnDay(CellDay(w, d))) <= rendered.visibleCount

(***************************************************************************)
(* What the layout pipeline gave in two renders: the month grids, the      *)
(* cellSlot assignments, and the geometry of every segment that both       *)
(* renders computed (getEventInfo runs on the visible events of a cell).   *)
(***************************************************************************)
idsOf(cell) == { cell.visibleEvents[i].id : i \in 1 .. Len(cell.visibleEvents) }

infoOf(cell, id) ==
  cell.info[CHOOSE i \in 1 .. Len(cell.visibleEvents) : cell.visibleEvents[i].id = id]

SameGeometry(a, b) ==
  /\ Len(a.cells) = Len(b.cells)
  /\ \A w \in 1 .. Len(a.cells) : \A d \in 1 .. Len(a.cells[w]) :
       \A id \in idsOf(a.cells[w][d]) \cap idsOf(b.cells[w][d]) :
         infoOf(a.cells[w][d], id) = infoOf(b.cells[w][d], id)

SamePipelineOutput(a, b) ==
  /\ a.weeks = b.weeks
  /\ a.layout = b.layout
  /\ SameGeometry(a, b)

ClippedStartDay == IF StartDay > DayOf(cellDate) THEN StartDay ELSE DayOf(cellDate)

ColumnInRow(n) == n - DayOf(cellDate)

(***************************************************************************)
(* C11: when a segment is shown, its left offset equals (position of the   *)
(* clipped segment start inside the cell's week, counted from the locale's *)
(* first weekday as column 0) / 7, for every locale first-weekday setting. *)
(* (left is in hundredths of a percent.)                                   *)
(***************************************************************************)
C11_LeftIsLocaleColumn ==
  (pc = "done" /\ TheEvent.end >= TheEvent.start) =>
    \A i \in 1 .. 7 :
      weekRow[i].info.show =>
        weekRow[i].info.left = toFixed2(ColumnInRow(ClippedStartDay))

\* the numbering of the weeks by the locale's first weekday: two days are in
\* the same week exactly when they have the same number
WeekNumber(n) == (n + 4 - weekStart) \div 7

(***************************************************************************)
(* C12: for a shown segment of an event with end >= start, multiWeek is    *)
(* 'both' exactly when the event's start week is before and its end week   *)
(* is after the cell's week, 'previous' exactly when it started in an      *)
(* earlier week and ends in the cell's week, 'next' exactly when it starts *)
(* in the cell's week and ends in a later week, and undefined exactly when *)
(* start and end lie in the same week.                                     *)
(***************************************************************************)
C12_MultiWeekClass ==
  (pc = "done" /\ TheEvent.end >= TheEvent.start) =>
    \A i \in 1 .. 7 :
      weekRow[i].info.show =>
        LET sw == WeekNumber(StartDay)
            ew == WeekNumber(EndDay)
            cw == WeekNumber(RowDay(i))
            mw == weekRow[i].info.multiWeek
        IN  /\ mw = "both" <=> (sw < cw /\ ew > cw)
            /\ mw = "previous" <=> (sw < cw /\ ew = cw)
            /\ mw = "next" <=> (sw = cw /\ ew > cw)
            /\ mw = "undefined" <=> sw = ew

\* under a Monday-first locale, an event from Sunday to Monday is flagged
\* 'next' on the Sunday (last cell of its row) and 'previous' on the Monday
C12_Witness ==
  /\ pc = "done"
  /\ weekStart = 1
  /\ EndDay = StartDay + 1
  /\ \/ /\ RowDay(7) = StartDay
        /\ weekRow[7].info.show
        /\ weekRow[7].info.multiWeek = "next"
     \/ /\ RowDay(1) = EndDay
        /\ weekRow[1].info.show
        /\ weekRow[1].info.multiWeek = "previous"

(***************************************************************************)
(* The shown segments of the event over all the displayed weeks (SpecInfo, *)
(* after RenderWeekRows), in display order, and the number of days a       *)
(* segment's width stands for.                                             *)
(***************************************************************************)
AllCells ==
  [k \in 1 .. CellsPerWeek * Len(rendered.rows) |->
     rendered.rows[((k - 1) \div CellsPerWeek) + 1][((k - 1) % CellsPerWeek) + 1]]

ShownCells == { k \in DOMAIN AllCells : AllCells[k].info.show }

SegmentDays(info) ==
  IF \E d \in 1 .. CellsPerWeek : toFixed2(d) = info.width
  THEN CHOOSE d \in 1 .. CellsPerWeek : toFixed2(d) = info.width
  ELSE 0 - 1

RECURSIVE SumSegmentDays(_)
SumSegmentDays(k) ==
  IF k = 0 THEN 0
  ELSE SumSegmentDays(k - 1) +
       (IF AllCells[k].info.show THEN SegmentDays(AllCells[k].info) ELSE 0)

(***************************************************************************)
(* C13: for any event spanning two or more displayed weeks (end >= start), *)
(* the day counts of its shown segments, summed over all the weeks it      *)
(* spans, equal the number of calendar days from its start date to its end *)
(* date inclusive; the first segment is flagged 'next' and the last        *)
(* 'previous'.                                                             *)
(***************************************************************************)
C13_SegmentsCoverEvent ==
  (/\ pc = "rows"
   /\ TheEvent.end >= TheEvent.start
   /\ WeekNumber(StartDay) < WeekNumber(EndDay)) =>
    /\ ShownCells # {}
    /\ SumSegmentDays(Len(AllCells)) = EndDay - StartDay + 1
    /\ \A k \in ShownCells :
         /\ (\A j \in ShownCells : k <= j) => AllCells[k].info.multiWeek = "next"
         /\ (\A j \in ShownCells : j <= k) => AllCells[k].info.multiWeek = "previous"

\* an event over three weeks that starts at 14:00 and ends at 09:00: three
\* segments, the middle one a whole week
C13_Witness ==
  /\ pc = "rows"
  /\ TheEvent.end >= TheEvent.start
  /\ WeekNumber(EndDay) = WeekNumber(StartDay) + 2
  /\ TickOf(TheEvent.start) = 2
  /\ TickOf(TheEvent.end) = 1
  /\ Cardinality(ShownCells) = 3
  /\ \E k \in ShownCells : /\ AllCells[k].info.multiWeek = "both"
                           /\ SegmentDays(AllCells[k].info) = CellsPerWeek

(***************************************************************************)
(* The order in which calculateEventLayout has processed the events is the *)
(* order of its output (each event is pushed when its slot is assigned).   *)
(* Before(a, b): a comes strictly before b in the priority order all-day   *)
(* before timed, multi-day before single-day, earlier start, longer        *)
(* duration.                                                               *)
(***************************************************************************)
IsMultiDay(e) == DayOf(e.end) > DayOf(e.start)

Before(a, b) ==
  IF a.allDay # b.allDay THEN a.allDay
  ELSE IF IsMultiDay(a) # IsMultiDay(b) THEN IsMultiDay(a)
  ELSE IF a.start # b.start THEN a.start < b.start
  ELSE (a.end - a.start) > (b.end - b.start)

(***************************************************************************)
(* C14: the slot allocator processes events in this priority order:        *)
(* all-day events before timed events; within each group multi-day events  *)
(* before single-day events; then earlier start first; then longer         *)
(* duration first.  Hence an all-day event never receives its slot after a *)
(* timed event of the same window.                                         *)
(***************************************************************************)
C14_PriorityOrder ==
  pc = "done" =>
    \A i, j \in 1 .. Len(eventsWithLayout) :
      i < j => ~Before(eventsWithLayout[j], eventsWithLayout[i])

(***************************************************************************)
(* The laid-out window of SpecLayout (first and last day of the calendar   *)
(* view), and the events of the input whose day interval meets it.         *)
(***************************************************************************)
WindowFirstDay == DayOf(firstDayOfCalendar(currentDate))

WindowLastDay == DayOf(lastDayOfCalendar(currentDate))

IntersectsWindow(e) ==
  /\ DayOf(e.start) <= WindowLastDay
  /\ DayOf(e.end) >= WindowFirstDay

(***************************************************************************)
(* C15: the slot allocator's output contains exactly the input events      *)
(* whose day interval intersects the laid-out window: an event that starts *)
(* after the window's last day or ends before its first day is never in    *)
(* the output and never receives a cellSlot.                               *)
(***************************************************************************)
C15_OutputIsWindowEvents ==
  pc = "done" =>
    { eventsWithLayout[i].id : i \in 1 .. Len(eventsWithLayout) } =
      { events[k].id : k \in { n \in 1 .. Len(events) : IntersectsWindow(events[n]) } }

(***************************************************************************)
(* C16: slot assignment is first-fit: each event, taken in the order the   *)
(* allocator processes them, receives the smallest slot index >= 0 that is *)
(* free on every day its clipped-to-window interval touches, given the     *)
(* slots already taken by the events before it; that slot is then occupied *)
(* on all those days.                                                      *)
(***************************************************************************)
C16_FirstFit ==
  pc = "done" =>
    \A i \in 1 .. Len(eventsWithLayout) :
      LET earlier == { j \in 1 .. i - 1 :
                         ClippedDays(eventsWithLayout[j]) \cap
                           ClippedDays(eventsWithLayout[i]) # {} }
          taken   == { eventsWithLayout[j].cellSlot : j \in earlier }
      IN  /\ eventsWithLayout[i].cellSlot >= 0
          /\ eventsWithLayout[i].cellSlot \notin taken
          /\ \A s \in 0 .. eventsWithLayout[i].cellSlot - 1 : s \in taken

\* an event placed in slot 0 under an earlier event in slot 1 that it shares
\* a day with: the lower slot was free on all of its days
C16_Witness ==
  /\ pc = "done"
  /\ \E i \in 1 .. Len(eventsWithLayout) :
       /\ eventsWithLayout[i].cellSlot = 0
       /\ ClippedDays(eventsWithLayout[i]) # {}
       /\ \E j \in 1 .. i - 1 :
            /\ eventsWithLayout[j].cellSlot = 1
            /\ ClippedDays(eventsWithLayout[j]) \cap
                 ClippedDays(eventsWithLayout[i]) # {}

(***************************************************************************)
(* The cells of the month grid in display order, and the first and last    *)
(* day of the reference date's month.                                      *)
(***************************************************************************)
GridCells ==
  [k \in 1 .. CellsPerWeek * Len(monthGrid) |->
     monthGrid[((k - 1) \div CellsPerWeek) + 1][((k - 1) % CellsPerWeek) + 1]]

MonthFirstDay ==
  LET c == CivilFromDays(DayOf(currentDate))
  IN  DaysFromCivil(c.year, c.month, 1)

MonthLastDay ==
  LET c == CivilFromDays(DayOf(currentDate))
  IN  DaysFromCivil(c.year, c.month, DaysInMonthOf(c.year, c.month))

(***************************************************************************)
(* C17: in the month grid a cell has isCurrentMonth = true exactly when    *)
(* its date lies in the reference date's month: the true-flagged cells are *)
(* one contiguous run covering every day of that month, and false-flagged  *)
(* cells occur only as a leading run (previous month) and a trailing run   *)
(* (next month).                                                           *)
(***************************************************************************)
C17_CurrentMonthRun ==
  pc = "done" =>
    LET flagged == { k \in DOMAIN GridCells : GridCells[k].isCurrentMonth }
    IN  /\ \A k \in DOMAIN GridCells :
             GridCells[k].isCurrentMonth <=>
               DayOf(GridCells[k].date) \in MonthFirstDay .. MonthLastDay
        /\ { DayOf(GridCells[k].date) : k \in flagged } =
             MonthFirstDay .. MonthLastDay
        /\ \A a, b \in flagged : \A k \in a .. b : k \in flagged
        /\ \A k \in DOMAIN GridCells \ flagged :
             \/ \A a \in flagged : k < a
             \/ \A a \in flagged : k > a

\* a grid of six weeks with a leading and a trailing run of cells outside
\* the month
C17_Witness ==
  /\ pc = "done"
  /\ Len(monthGrid) = 6
  /\ ~GridCells[1].isCurrentMonth
  /\ ~GridCells[Len(GridCells)].isCurrentMonth
  /\ \E k \in DOMAIN GridCells : GridCells[k].isCurrentMonth

C19_UndefinedAsEmpty ==
  (events = << >> /\ pc # "init") =>
    \/ pc = "done" /\ eventsWithLayout = << >>
    \/ pc = "filtered" /\ weekRow[1].dayEvents = << >>

C21_NoCellSlotPersisted ==
  \A k \in DOMAIN events : "cellSlot" \notin DOMAIN events[k]

\* the part of C21 the code keeps: no timed event of the list has a cellSlot
C21_TimedHaveNoCellSlot ==
  \A k \in DOMAIN events :
    ~events[k].allDay => "cellSlot" \notin DOMAIN events[k]

(***************************************************************************)
(* C22: on a successful drop onto a day cell the event handed to           *)
(* onEventUpdate is the original event shifted by a whole number of days:  *)
(* same id and other fields, new start = original start + k days with the  *)
(* time of day preserved, new end = original end + k days, so that the     *)
(* duration end - start is unchanged.                                      *)
(***************************************************************************)
ShiftedByDays(before, after) ==
  LET k == DayOf(after.start) - DayOf(before.start)
  IN  /\ after.id = before.id
      /\ after.allDay = before.allDay
      /\ after.start = addDays(before.start, k)
      /\ after.end = addDays(before.end, k)

C23_EndNotBeforeStart ==
  \A k \in DOMAIN events : events[k].end >= events[k].start

\* an event saved by the dialog at 12:00 and then moved by a drop to
\* Wednesday 6 March, a day the dialog does not offer
C23_Witness ==
  /\ pc = "handleDragEnd"
  /\ \E k \in DOMAIN events :
       /\ ~events[k].allDay
       /\ TickOf(events[k].start) = 2
       /\ DayOf(events[k].start) = DayOf(At(2024, 3, 4, 0)) + 2

(***************************************************************************)
(* C24: EventDialog.handleSave rejects invalid input without side effects: *)
(* when the computed end is earlier than the computed start, or (for an    *)
(* event that is not all-day) a start or end hour lies outside             *)
(* [StartHour, EndHour], it sets an error message and does not call        *)
(* onSave, so the event list is unchanged and the dialog stays open.       *)
(***************************************************************************)
HourOutside(t) == hourOf(t) < StartHour \/ hourOf(t) > EndHour

InvalidForm(form) ==
  IF form.allDay
  THEN DayOf(form.endDate) < DayOf(form.startDate)
  ELSE \/ HourOutside(form.startTime)
       \/ HourOutside(form.endTime)
       \/ DayOf(form.endDate) < DayOf(form.startDate)
       \/ /\ DayOf(form.endDate) = DayOf(form.startDate)
          /\ form.endTime < form.startTime

C24_InvalidSaveRejected ==
  [][pc' = "handleSave" /\ dialog.form # null /\ InvalidForm(dialog.form[1])
       => /\ dialog'.error # null
          /\ dialog'.form = dialog.form
          /\ events' = events]_vars

\* a save with the end before the start was rejected
C24_Witness ==
  /\ pc = "handleSave"
  /\ dialog.form # null
  /\ dialog.error = some("End date cannot be before start date")
  /\ InvalidForm(dialog.form[1])

(***************************************************************************)
(* C25: every drag ends in the idle state: after handleDragEnd has run,    *)
(* whether the drop was on a valid cell, outside any cell, or on the       *)
(* original day, the active drag item is null, the potential start date is *)
(* null and the grab offset is null.                                       *)
(***************************************************************************)
C25_DragEndsIdle ==
  [][drag.active # null /\ drag'.active = null
       => /\ pc' = "handleDragEnd"
          /\ drag'.activeDragItem = null
          /\ drag'.potentialStartDate = null
          /\ drag'.offsetRef = null]_vars

\* a drag has ended, and the list is as it was at the start: the drop was
\* outside every cell, on the original day, or never hovered a cell
C25_Witness ==
  /\ pc = "handleDragEnd"
  /\ events \in EventLists(DndEvents, MaxDndEvents)
  /\ events # << >>
  /\ drag.activeDragItem = null
  /\ drag.offsetRef = null

(***************************************************************************)
(* C26: during one drag onEventUpdate is called at most once, only from    *)
(* handleDragEnd, and only when the pointer is over a day cell and the     *)
(* resulting start day differs from the event's original start day;        *)
(* dragStart and dragOver never change the event list, and a drop outside  *)
(* every cell changes nothing.                                             *)
(***************************************************************************)
StartDayMoved(before, after) ==
  \E k \in DOMAIN before :
    /\ after[k] # before[k]
    /\ DayOf(after[k].start) # DayOf(before[k].start)
    /\ \A j \in DOMAIN before \ {k} : after[j] = before[j]

C26_UpdateOnlyAtDrop ==
  [][/\ pc' \in {"handleDragStart", "handleDragOver", "render"}
          => events' = events
     /\ pc' = "handleDragEnd" /\ drag.over = null => events' = events
     /\ (drag.active # null \/ pc' = "handleDragEnd") /\ events' # events
          => /\ pc' = "handleDragEnd"
             /\ drag.over # null
             /\ drag'.active = null
             /\ StartDayMoved(events, events')]_vars

\* a drop has moved the all-day event to Wednesday 6 March
C26_Witness ==
  /\ pc = "handleDragEnd"
  /\ \E k \in DOMAIN events :
       /\ events[k].allDay
       /\ DayOf(events[k].start) = DayOf(At(2024, 3, 4, 0)) + 2

(***************************************************************************)
(* C27: the grab offset is computed once per drag, at the first day cell   *)
(* hovered, and stays constant until the drag ends; from then on the       *)
(* potential start date always equals (hovered cell date - offset), so     *)
(* that hovering or dropping on the first-hovered cell yields the event's  *)
(* original start day and no update.                                       *)
(***************************************************************************)
OriginalStartDay(d) == startOfDay(d.active[1].event.start)

\* the first-hovered cell, known from the offset
FirstHovered(d) == addDays(OriginalStartDay(d), d.offsetRef[1])

\* computed at the first day cell hovered, and constant until the drag ends
OffsetComputedOnce ==
  /\ drag.active # null /\ drag.offsetRef = null /\ drag'.offsetRef # null
       => /\ drag'.over # null
          /\ drag'.offsetRef =
               some(DayOf(drag'.over[1]) - DayOf(OriginalStartDay(drag)))
  /\ drag.offsetRef # null /\ drag'.active # null
       => drag'.offsetRef = drag.offsetRef

\* the potential start date is the hovered cell less the offset
PotentialFollowsPointer(d) ==
  d.active # null /\ d.over # null
    => /\ d.offsetRef # null
       /\ d.potentialStartDate = some(addDays(d.over[1], 0 - d.offsetRef[1]))
       /\ d.over[1] = FirstHovered(d)
            => d.potentialStartDate = some(OriginalStartDay(d))

C27_OffsetAndPotentialStart ==
  [][/\ OffsetComputedOnce
     /\ PotentialFollowsPointer(drag')]_vars

\* C27 with its last part: a drop on the first-hovered cell updates nothing
C27_OffsetOnceAndNoUpdateAtFirstCell ==
  [][/\ OffsetComputedOnce
     /\ PotentialFollowsPointer(drag')
     /\ /\ pc' = "handleDragEnd"
        /\ drag.active # null /\ drag.over # null /\ drag.offsetRef # null
        /\ drag.over[1] = FirstHovered(drag)
        => events' = events]_vars

(***************************************************************************)
(* C28: the start date committed at drag end equals the date of the cell   *)
(* under the pointer at drop time minus the grab offset, in every          *)
(* interleaving of dragOver, re-render and dragEnd: a drop that arrives    *)
(* before the state update of the last dragOver has been rendered still    *)
(* commits the position of the drop cell, not an earlier hover position    *)
(* or no update.                                                           *)
(***************************************************************************)
C28_DropCommitsDropCell ==
  [][/\ pc' = "handleDragEnd"
     /\ drag.active # null /\ drag.over # null /\ drag.offsetRef # null
     => \A k \in DOMAIN events :
          events[k].id = drag.active[1].event.id
            => DayOf(events'[k].start)
                 = DayOf(addDays(drag.over[1], 0 - drag.offsetRef[1]))]_vars

\* the same for drops that arrive after the last dragOver was rendered
C28_RenderedDropCommitsDropCell ==
  [][/\ pc' = "handleDragEnd"
     /\ drag.active # null /\ drag.over # null /\ drag.offsetRef # null
     /\ drag.handlers.potentialStartDate = drag.potentialStartDate
     => \A k \in DOMAIN events :
          events[k].id = drag.active[1].event.id
            => DayOf(events'[k].start)
                 = DayOf(addDays(drag.over[1], 0 - drag.offsetRef[1]))]_vars

C30_SlotsBoundedByOrder ==
  pc = "done" =>
    /\ Len(eventsWithLayout)
         = Len(SelectSeq(events, LAMBDA e : relevant(e, currentDate)))
    /\ \A i \in 1 .. Len(eventsWithLayout) :
         /\ eventsWithLayout[i].cellSlot >= 0
         /\ eventsWithLayout[i].cellSlot <= i - 1
         /\ eventsWithLayout[i].cellSlot < Len(eventsWithLayout)

\* the bound is reached, by a list holding an event with end < start: the
\* last of MaxLayoutEvents events has every slot below it taken
C30_Witness ==
  /\ pc = "done"
  /\ Len(eventsWithLayout) = MaxLayoutEvents
  /\ eventsWithLayout[MaxLayoutEvents].cellSlot = MaxLayoutEvents - 1
  /\ \E k \in DOMAIN events : events[k].end < events[k].start

====
